---- MODULE Spec2Model ----
(***************************************************************************)
(* Token-refresh coordination of ApiConfig (src/src/config/index.ts).      *)
(*                                                                         *)
(* One ApiConfig instance, its credential store (tokenManager), the shared *)
(* refreshPromise, the refresh operations it has started and a fixed set   *)
(* of requests issued through transports made by createAxiosInstance.      *)
(* Every `await` of the source is a point where another request's          *)
(* continuation may run, so each action is the code between two awaits.    *)
(* A caller issues its next request once the previous one has settled.     *)
(***************************************************************************)
EXTENDS Integers, Sequences, FiniteSets, TLC

\* ------------------------------------------------------------------ bounds
\* requests in progress at the same time
NumReq == 2

\* refresh operations started in one behaviour
MaxRefresh == 2

\* callbacks that may throw during one run of a step
MaxThrows == 1

Requests == 1..NumReq

\* ------------------------------------------------------------- value sets
None == "none"

\* the access token that the k-th refresh operation is answered with, when
\* it is answered with one: every refresh is issued a fresh token
IssuedTokens == << "t1", "t2", "t3", "t4", "t5" >>

\* the refresh token that the reply to the k-th refresh operation carries
\* next to the access token (a server that rotates refresh tokens)
IssuedRefreshTokens == << "r1", "r2", "r3", "r4", "r5" >>

\* failed responses: the HTTP status (401 is the authentication signal) and
\* the application error code of the body (body.code), if it carries one
Failures == { [status |-> 401, code |-> "TOKEN_EXPIRED"],
              [status |-> 401, code |-> "NO_CODE"],
              [status |-> 500, code |-> "NO_CODE"] }

\* callbacks of the embedding application that performTokenRefresh calls
Callbacks == {"getRefreshToken", "onRefreshRequest", "setAccessToken",
              "onTokenRefresh", "clearTokens", "onTokenRefreshError",
              "onUnauthorized"}

\* the callbacks that throw during one execution of a step
ThrowSets == {s \in SUBSET Callbacks : Cardinality(s) <= MaxThrows}

\* options.services as Object.values() lists it
ServiceLists ==
    { << [name |-> "api", refreshEndpoint |-> FALSE] >>,
      << [name |-> "api", refreshEndpoint |-> TRUE] >>,
      << [name |-> "api", refreshEndpoint |-> FALSE],
         [name |-> "auth", refreshEndpoint |-> FALSE] >> }

\* ------------------------------------------------------------ error values
NoErr == [src |-> "none", req |-> 0, attempt |-> 0, status |-> 0,
          code |-> None, by |-> None]

\* the AxiosError of request r's attempt-th dispatch
RequestError(r, attempt, status, code) ==
    [src |-> "request", req |-> r, attempt |-> attempt, status |-> status,
     code |-> code, by |-> None]

\* an exception that left performTokenRefresh, thrown by callback cb
RefreshError(cb) ==
    [src |-> "refresh", req |-> 0, attempt |-> 0, status |-> 0,
     code |-> None, by |-> cb]

\* ------------------------------------------------------------------- state
VARIABLES
    options,        \* ApiClientOptions: services, onRefreshRequest
    tokenManager,   \* the credential store: access and refresh token
    refreshPromise, \* 0 (null) or the index in ops of the shared promise
    ops,            \* the promises returned by performTokenRefresh
    req,            \* the requests: config, error and handler position
    refreshRequest, \* the last request performTokenRefresh gave axios.request
    call,           \* a direct method call on an ApiService
    mutation,       \* a mutation made with ApiService.useMutation
    retryCfg,       \* an object returned by createRetryConfig and its calls
    msgCall,        \* a call of getErrorMessage: its argument and result
    instance,       \* the static field ApiConfig.instance
    client          \* an ApiClient, its services and the last call's outcome

vars == <<options, tokenManager, refreshPromise, ops, req, refreshRequest,
          call, mutation, retryCfg, msgCall, instance, client>>

\* the state of ApiConfig, its credential store and its requests
core == <<options, tokenManager, refreshPromise, ops, req, refreshRequest>>

\* the state of ApiService and of the utilities, which the interceptors and
\* refreshToken never touch
outside == <<call, mutation, retryCfg, msgCall, instance, client>>

\* the static side: the singleton and the clients built on it
registry == <<instance, client>>

NewRequest ==
    [pc |-> "new", service |-> 0, retry |-> FALSE, auth |-> None,
     attempts |-> 0,
     error |-> NoErr, awaits |-> 0, newToken |-> None,
     rejection |-> NoErr]

\* the configurations: automatic refresh over each service list, or a
\* custom onRefreshRequest handler
OptionChoices ==
    [services : ServiceLists, onRefreshRequest : {FALSE}]
    \cup { [services |-> << [name |-> "api", refreshEndpoint |-> TRUE] >>,
            onRefreshRequest |-> TRUE] }

\* no refresh request was given to axios.request yet
NoRequest ==
    [url |-> None, method |-> None, data |-> {},
     header |-> [name |-> None, prefix |-> None, token |-> None]]

\* an ApiService on which no direct method was called yet
IdleCall ==
    [pc |-> "idle", method |-> None, url |-> None, data |-> None,
     config |-> None, transport |-> <<>>,
     settled |-> [state |-> "pending",
                  response |-> [data |-> None, status |-> None],
                  error |-> None],
     result |-> [state |-> "pending", value |-> None]]

\* a mutation hook with its configuration, before mutate is called
IdleMutation(cfg) == [pc |-> "idle", cfg |-> cfg, calls |-> <<>>]

\* useMutation called with a url and a method only
BareMutation ==
    [successMessage |-> FALSE, errorMessage |-> FALSE,
     notificationManager |-> FALSE, keyToInvalidate |-> FALSE,
     callbacks |-> FALSE]

\* createRetryConfig's defaults and the cap of retryDelay (milliseconds)
DefaultMaxRetries == 3

DefaultBaseDelay == 1000

MaxRetryDelay == 30000

\* the object createRetryConfig(maxRetries, baseDelay) returns, with the
\* last call of its retry and the results of its retryDelay calls so far
RetryConfig(maxRetries, baseDelay) ==
    [maxRetries |-> maxRetries, baseDelay |-> baseDelay, called |-> FALSE,
     failureCount |-> 0,
     error |-> [kind |-> "none", marker |-> FALSE, status |-> 0],
     retry |-> FALSE, delays |-> <<>>]

\* a JavaScript value that is undefined
Undefined == "undefined"

\* an argument of getErrorMessage: what kind of value it is, whether it has
\* the isAxiosError property, whether it is an instance of Error, its
\* message, and, if it has a response, the response's statusText and the
\* detail of the response's data (its type, its value if a string and its
\* message if an object)
ErrorValue(kind, marker, isError, message, response, statusText, detailType, detail, detailMessage) ==
    [kind |-> kind, marker |-> marker, isError |-> isError,
     message |-> message, response |-> response, statusText |-> statusText,
     detailType |-> detailType, detail |-> detail,
     detailMessage |-> detailMessage]

\* an object with no property
PlainObject ==
    ErrorValue("object", FALSE, FALSE, Undefined, FALSE, Undefined,
               "undefined", Undefined, Undefined)

\* getErrorMessage before it is called with error
MessageCall(error) == [error |-> error, called |-> FALSE, result |-> None]

NoMessageCall == MessageCall(PlainObject)

\* ApiConfig.instance: undefined (never assigned), null (after reset) or an
\* ApiConfig made from options with these service names
InstanceUndefined == [state |-> "undefined", services |-> {}]

InstanceNull == [state |-> "null", services |-> {}]

InstanceOf(names) == [state |-> "instance", services |-> names]

\* the outcome of a call: what it threw or what it returned
Outcome(op, name, threw, returned) ==
    [op |-> op, name |-> name, threw |-> threw, returned |-> returned]

NoOutcome == Outcome(None, None, None, None)

\* no ApiClient constructed yet
NoClient ==
    [created |-> FALSE, options |-> {}, services |-> <<>>,
     last |-> NoOutcome]

\* ApiConfig initialised with one service, no ApiClient
RegistryAtRest ==
    /\ instance = InstanceOf({"api"})
    /\ client = NoClient

\* the interceptors' side at rest
CoreInit ==
    /\ options \in OptionChoices
    /\ tokenManager \in [access : {None, "t0"}, refresh : {None, "r0"}]
    /\ refreshPromise = 0
    /\ ops = <<>>
    /\ req = [r \in Requests |-> NewRequest]
    /\ refreshRequest = NoRequest

Init ==
    /\ CoreInit
    /\ call = IdleCall
    /\ mutation = IdleMutation(BareMutation)
    /\ retryCfg = RetryConfig(DefaultMaxRetries, DefaultBaseDelay)
    /\ msgCall = NoMessageCall
    /\ RegistryAtRest

\* ------------------------------------------------- performTokenRefresh
\* a call that performTokenRefresh makes, with its argument (None if it
\* takes none, the error's origin for onTokenRefreshError)
Call(name, arg) == [call |-> name, arg |-> arg]

\* what one run of performTokenRefresh has reached: the state and value of
\* the promise it returned, the calls it made so far, and the store
Reached(state, value, error, log, store) ==
    [state |-> state, value |-> value, error |-> error, log |-> log,
     store |-> store]

NameIncludesAuth(name) == name \in {"auth"}

\* Object.values(services).find(...): index of the first match, 0 if none
AuthService(services) ==
    LET hits == {i \in 1..Len(services) :
                    services[i].refreshEndpoint
                    \/ NameIncludesAuth(services[i].name)}
    IN IF hits = {} THEN 0
       ELSE CHOOSE i \in hits : \A j \in hits : i <= j

\* faulty catch block: the refresh call is made again
CatchBlockRetries(store, log, thr) ==
    Reached("pending", None, NoErr,
            Append(log, Call("axios.request", store.refresh)), store)

\* faulty catch block: onUnauthorized is called first
CatchBlockUnauthorizedFirst(store, log, thr) ==
    Reached("fulfilled", None, NoErr,
            log \o << Call("onUnauthorized", None),
                      Call("clearTokens", None),
                      Call("onTokenRefreshError", log[Len(log)].call) >>,
            [access |-> None, refresh |-> None])

\* the catch block, entered with the error of the last call made in the try
\* block: clearTokens, onTokenRefreshError(err), onUnauthorized, then the
\* function returns null; a callback that throws rejects the promise
CatchBlock(store, log, thr) ==
    LET err == log[Len(log)].call
        l1 == Append(log, Call("clearTokens", None))
        cleared == [access |-> None, refresh |-> None]
        l2 == Append(l1, Call("onTokenRefreshError", err))
        l3 == Append(l2, Call("onUnauthorized", None))
    IN IF "clearTokens" \in thr
       THEN Reached("rejected", None, RefreshError("clearTokens"), l1, store)
       ELSE IF "onTokenRefreshError" \in thr
       THEN Reached("rejected", None, RefreshError("onTokenRefreshError"),
                    l2, cleared)
       ELSE IF "onUnauthorized" \in thr
       THEN Reached("rejected", None, RefreshError("onUnauthorized"),
                    l3, cleared)
       ELSE Reached("fulfilled", None, NoErr, l3, cleared)

\* faulty success path: the new token is returned but never stored
ReturnNewTokenUnstored(store, log, thr, token) ==
    Reached("fulfilled", token, NoErr, log, store)

\* a truthy new token: setAccessToken, onTokenRefresh, return the token
\* (both calls are inside the try block)
StoreNewToken(store, log, thr, token) ==
    LET l1 == Append(log, Call("setAccessToken", token))
        written == [store EXCEPT !.access = token]
        l2 == Append(l1, Call("onTokenRefresh", token))
    IN IF "setAccessToken" \in thr
       THEN CatchBlock(store, l1, thr)
       ELSE IF "onTokenRefresh" \in thr
       THEN CatchBlock(written, l2, thr)
       ELSE Reached("fulfilled", token, NoErr, l2, written)

\* faulty performTokenRefresh: the custom handler is not consulted
PerformTokenRefreshStartAutomatic(store, opt, thr) ==
    LET l0 == << Call("getRefreshToken", None) >>
    IN IF "getRefreshToken" \in thr
       THEN Reached("rejected", None, RefreshError("getRefreshToken"),
                    l0, store)
       ELSE IF store.refresh = None
       THEN IF "onUnauthorized" \in thr
            THEN Reached("rejected", None, RefreshError("onUnauthorized"),
                         Append(l0, Call("onUnauthorized", None)), store)
            ELSE Reached("fulfilled", None, NoErr,
                         Append(l0, Call("onUnauthorized", None)), store)
       ELSE IF AuthService(opt.services) # 0
       THEN Reached("pending", None, NoErr,
                    Append(l0, Call("axios.request", store.refresh)), store)
       ELSE Reached("fulfilled", None, NoErr, l0, store)

\* performTokenRefresh from its call to its first await (or its return)
PerformTokenRefreshStart(store, opt, thr) ==
    LET l0 == << Call("getRefreshToken", None) >>
    IN IF "getRefreshToken" \in thr
       THEN Reached("rejected", None, RefreshError("getRefreshToken"),
                    l0, store)
       ELSE IF store.refresh = None
       THEN IF "onUnauthorized" \in thr
            THEN Reached("rejected", None, RefreshError("onUnauthorized"),
                         Append(l0, Call("onUnauthorized", None)), store)
            ELSE Reached("fulfilled", None, NoErr,
                         Append(l0, Call("onUnauthorized", None)), store)
       ELSE IF opt.onRefreshRequest
       THEN IF "onRefreshRequest" \in thr
            THEN CatchBlock(store,
                            Append(l0, Call("onRefreshRequest",
                                            store.refresh)),
                            thr)
            ELSE Reached("pending", None, NoErr,
                         Append(l0, Call("onRefreshRequest", store.refresh)),
                         store)
       ELSE IF AuthService(opt.services) # 0
       THEN Reached("pending", None, NoErr,
                    Append(l0, Call("axios.request", store.refresh)), store)
       ELSE Reached("fulfilled", None, NoErr, l0, store)

\* faulty request: the refresh token in the body, no header
RefreshRequestInBody(refreshToken, service) ==
    [url |-> IF service.refreshEndpoint THEN "refreshEndpoint"
             ELSE "/auth/refresh",
     method |-> "post",
     data |-> {<<"refreshToken", refreshToken>>},
     header |-> [name |-> None, prefix |-> None, token |-> None]]

\* the request of the automatic refresh, as given to axios.request, for a
\* service that sets none of refreshMethod, refreshTokenHeaderName,
\* refreshTokenPrefix and refreshRequestBody: the refresh token travels in
\* a header, the body is the empty object
RefreshRequest(refreshToken, service) ==
    [url |-> IF service.refreshEndpoint THEN "refreshEndpoint"
             ELSE "/auth/refresh",
     method |-> "post",
     data |-> {},
     header |-> [name |-> "Authorization", prefix |-> "Bearer",
                 token |-> refreshToken]]

\* the replies of the refresh call: it throws (network error, non-2xx), or
\* it returns a body (a value) with or without a truthy access token
Replies(k) ==
    { [ok |-> FALSE, token |-> None, refresh |-> None],
      [ok |-> TRUE, token |-> None, refresh |-> None],
      [ok |-> TRUE, token |-> IssuedTokens[k],
       refresh |-> IssuedRefreshTokens[k]] }

\* performTokenRefresh from the settlement of its await to its return
PerformTokenRefreshResume(store, log, thr, reply) ==
    IF ~reply.ok
    THEN CatchBlock(store, log, thr)
    ELSE IF reply.token # None
    THEN StoreNewToken(store, log, thr, reply.token)
    ELSE Reached("fulfilled", None, NoErr, log, store)

\* the promise part of a Reached record
Promise(res) ==
    [state |-> res.state, value |-> res.value, error |-> res.error,
     log |-> res.log]

\* a promise nothing refers to any more
Released == [state |-> "released", value |-> None, error |-> NoErr,
             log |-> <<>>]

\* promise k is held by refreshPromise rp or awaited by a request of rq
Referenced(k, rp, rq) ==
    \/ rp = k
    \/ \E r \in Requests :
         rq[r].pc \in {"awaitOwn", "awaitShared"} /\ rq[r].awaits = k

Release(os, rp, rq) ==
    [k \in DOMAIN os |-> IF Referenced(k, rp, rq) THEN os[k] ELSE Released]

\* ------------------------------------------------------------ interceptors
\* faulty interceptor: the header is left as it came
RequestInterceptorOff(store, auth) == auth

\* faulty interceptor: a header that is already set is kept
RequestInterceptorKeepsHeader(store, auth) ==
    IF auth # None THEN auth ELSE store.access

\* request interceptor: the bearer value set from the store, if it has one
RequestInterceptor(store, auth) ==
    IF store.access # None THEN store.access ELSE auth

\* faulty handler conditions: the retry marker is not consulted; only a
\* reserved body code counts as the signal; the status is not consulted
ShouldRefreshIgnoringRetry(status, code, retry) == status = 401

ShouldRefreshOnCodeOnly(status, code, retry) ==
    status = 401 /\ code = "TOKEN_EXPIRED" /\ ~retry

ShouldRefreshAnyStatus(status, code, retry) == ~retry

\* the condition of the response interceptor's error handler
ShouldRefresh(status, code, retry) == status = 401 /\ ~retry

\* faulty guards: every caller starts its own refresh
NeverInProgress(rp) == FALSE

\* refreshToken's guard: a refresh is already in progress
InProgress(rp) == rp # 0

\* faulty transport: requests are held back while a refresh is in progress
DispatchWhenIdle(r) ==
    /\ refreshPromise = 0
    /\ req[r].pc \in {"new", "resolved", "rejected"}
    /\ \E s \in DOMAIN options.services :
         req' = [req EXCEPT
                   ![r] = [NewRequest EXCEPT
                             !.pc = "inflight",
                             !.service = s,
                             !.auth = RequestInterceptor(tokenManager, None),
                             !.attempts = 1]]
    /\ UNCHANGED <<options, tokenManager, refreshPromise, ops>>
    /\ UNCHANGED <<refreshRequest, outside>>

\* the caller issues a request (its first, or the next one after the
\* previous settled): request interceptor, then the network call
Dispatch(r) ==
    /\ req[r].pc \in {"new", "resolved", "rejected"}
    /\ \E s \in DOMAIN options.services :
         req' = [req EXCEPT
                   ![r] = [NewRequest EXCEPT
                             !.pc = "inflight",
                             !.service = s,
                             !.auth = RequestInterceptor(tokenManager, None),
                             !.attempts = 1]]
    /\ UNCHANGED <<options, tokenManager, refreshPromise, ops>>
    /\ UNCHANGED <<refreshRequest, outside>>

\* a 2xx response: the response interceptor returns it
Succeed(r) ==
    /\ req[r].pc = "inflight"
    /\ req' = [req EXCEPT ![r].pc = "resolved"]
    /\ UNCHANGED <<options, tokenManager, refreshPromise, ops>>
    /\ UNCHANGED <<refreshRequest, outside>>

\* a failed response that the handler rejects at once
RejectError(r, status, code) ==
    /\ req[r].pc = "inflight"
    /\ ~ShouldRefresh(status, code, req[r].retry)
    /\ LET e == RequestError(r, req[r].attempts, status, code)
       IN req' = [req EXCEPT ![r].pc = "rejected", ![r].error = e,
                             ![r].rejection = e]
    /\ UNCHANGED <<options, tokenManager, refreshPromise, ops>>
    /\ UNCHANGED <<refreshRequest, outside>>

PendingOps == {k \in DOMAIN ops : ops[k].state = "pending"}

\* an authentication failure while a refresh is in progress: refreshToken
\* returns the shared promise
JoinRefresh(r, status, code) ==
    /\ req[r].pc = "inflight"
    /\ ShouldRefresh(status, code, req[r].retry)
    /\ InProgress(refreshPromise)
    /\ req' = [req EXCEPT ![r].pc = "awaitShared",
                          ![r].retry = TRUE,
                          ![r].error = RequestError(r, req[r].attempts,
                                                    status, code),
                          ![r].awaits = refreshPromise]
    /\ UNCHANGED <<options, tokenManager, refreshPromise, ops>>
    /\ UNCHANGED <<refreshRequest, outside>>

\* an authentication failure with no refresh in progress: refreshToken
\* starts performTokenRefresh and awaits its promise
StartRefresh(r, status, code) ==
    /\ req[r].pc = "inflight"
    /\ ShouldRefresh(status, code, req[r].retry)
    /\ ~InProgress(refreshPromise)
    /\ Len(ops) < MaxRefresh
    /\ \E thr \in ThrowSets :
         LET res == PerformTokenRefreshStart(tokenManager, options, thr)
         IN /\ ops' = Append(ops, Promise(res))
            /\ tokenManager' = res.store
            /\ refreshRequest' =
                 IF \E i \in DOMAIN res.log : res.log[i].call = "axios.request"
                 THEN RefreshRequest(
                          tokenManager.refresh,
                          options.services[AuthService(options.services)])
                 ELSE refreshRequest
    /\ refreshPromise' = Len(ops) + 1
    /\ req' = [req EXCEPT ![r].pc = "awaitOwn",
                          ![r].retry = TRUE,
                          ![r].error = RequestError(r, req[r].attempts,
                                                    status, code),
                          ![r].awaits = Len(ops) + 1]
    /\ UNCHANGED <<options, outside>>

\* the refresh call (axios.request or onRefreshRequest) settles
SettleRefresh(k) ==
    /\ k \in DOMAIN ops
    /\ ops[k].state = "pending"
    /\ \E reply \in Replies(k), thr \in ThrowSets :
         LET res == PerformTokenRefreshResume(tokenManager, ops[k].log,
                                              thr, reply)
         IN /\ ops' = [ops EXCEPT ![k] = Promise(res)]
            /\ tokenManager' = res.store
    /\ UNCHANGED <<options, refreshPromise, req>>
    /\ UNCHANGED <<refreshRequest, outside>>

\* the request that started the refresh resumes inside refreshToken: the
\* finally block clears the shared promise and the result is returned
ClearRefreshPromise(r) ==
    /\ req[r].pc = "awaitOwn"
    /\ ops[req[r].awaits].state # "pending"
    /\ refreshPromise' = 0
    /\ req' = [req EXCEPT ![r].pc = "awaitShared"]
    /\ UNCHANGED <<options, tokenManager, ops>>
    /\ UNCHANGED <<refreshRequest, outside>>

\* faulty handler: a request whose refresh produced no token stays suspended
AfterRefreshKeepsWaiting(q, p, store) ==
    IF p.state = "rejected"
    THEN [q EXCEPT !.pc = "rejected", !.rejection = p.error]
    ELSE IF p.value # None
    THEN [q EXCEPT !.pc = "inflight", !.newToken = p.value,
                   !.auth = RequestInterceptor(store, p.value),
                   !.attempts = @ + 1]
    ELSE q

\* faulty handler: a failed refresh rejects without the original error
AfterRefreshLosesError(q, p, store) ==
    IF p.state = "rejected"
    THEN [q EXCEPT !.pc = "rejected", !.rejection = p.error]
    ELSE IF p.value # None
    THEN [q EXCEPT !.pc = "inflight", !.newToken = p.value,
                   !.auth = RequestInterceptor(store, p.value),
                   !.attempts = @ + 1]
    ELSE [q EXCEPT !.pc = "rejected", !.rejection = p.error]

\* the handler after `await this.refreshToken()`, for promise p: the await
\* throws, or a token is put on the request and the request is sent again
\* through the transport (request interceptor, then the network call), or
\* the original error is rejected
AfterRefresh(q, p, store) ==
    IF p.state = "rejected"
    THEN [q EXCEPT !.pc = "rejected", !.rejection = p.error]
    ELSE IF p.value # None
    THEN [q EXCEPT !.pc = "inflight", !.newToken = p.value,
                   !.auth = RequestInterceptor(store, p.value),
                   !.attempts = @ + 1]
    ELSE [q EXCEPT !.pc = "rejected", !.rejection = q.error]

\* a request resumes with the settlement of the promise refreshToken gave it
ResumeHandler(r) ==
    /\ req[r].pc = "awaitShared"
    /\ ops[req[r].awaits].state # "pending"
    /\ req' = [req EXCEPT
                 ![r] = AfterRefresh(req[r], ops[req[r].awaits], tokenManager)]
    /\ ops' = Release(ops, refreshPromise, req')
    /\ UNCHANGED <<options, tokenManager, refreshPromise>>
    /\ UNCHANGED <<refreshRequest, outside>>

Next ==
    \/ \E r \in Requests : Dispatch(r)
    \/ \E r \in Requests : Succeed(r)
    \/ \E r \in Requests, f \in Failures : RejectError(r, f.status, f.code)
    \/ \E r \in Requests, f \in Failures : JoinRefresh(r, f.status, f.code)
    \/ \E r \in Requests, f \in Failures : StartRefresh(r, f.status, f.code)
    \/ \E k \in 1..MaxRefresh : SettleRefresh(k)
    \/ \E r \in Requests : ClearRefreshPromise(r)
    \/ \E r \in Requests : ResumeHandler(r)

Spec == Init /\ [][Next]_vars

\* the network answers the request that was sent again
SettleRetry(r) ==
    /\ req[r].retry
    /\ \/ Succeed(r)
       \/ \E f \in Failures : RejectError(r, f.status, f.code)

\* the refresh call and every re-dispatched request are answered, and the
\* continuations of settled promises (the finally block of refreshToken,
\* the handler after its await) are run by the event loop
Fairness ==
    /\ \A k \in 1..MaxRefresh : WF_vars(SettleRefresh(k))
    /\ \A r \in Requests : WF_vars(ClearRefreshPromise(r))
    /\ \A r \in Requests : WF_vars(ResumeHandler(r))
    /\ \A r \in Requests : WF_vars(SettleRetry(r))

SpecLive == Init /\ [][Next]_vars /\ Fairness

\* ------------------------------------------------------------- properties
Awaiting == {"awaitOwn", "awaitShared"}

\* the requests suspended on promise k
Waiters(k) == {r \in Requests : req[r].pc \in Awaiting /\ req[r].awaits = k}

\* this step is the error handler of request r taking a failed response
Handles(r) == req[r].pc = "inflight" /\ req'[r].error # req[r].error

\* this step makes the handler of request r call refreshToken
CallsRefreshToken(r) == req[r].pc = "inflight" /\ req'[r].pc \in Awaiting

\* the refresh calls (axios.request or onRefreshRequest) a run has issued
RECURSIVE CallsIssued(_)
CallsIssued(log) ==
    IF log = <<>> THEN 0
    ELSE (IF Head(log).call \in {"axios.request", "onRefreshRequest"}
          THEN 1 ELSE 0)
         + CallsIssued(Tail(log))

RECURSIVE Count(_, _)
Count(log, cb) ==
    IF log = <<>> THEN 0
    ELSE (IF Head(log).call = cb THEN 1 ELSE 0) + Count(Tail(log), cb)

\* C1: in every reachable state at most one refresh operation (one run of
\* performTokenRefresh, one refresh call) is outstanding, however many
\* requests wait on it.
AtMostOneRefreshOutstanding ==
    /\ Cardinality(PendingOps) <= 1
    /\ \A k \in PendingOps : CallsIssued(ops[k].log) = 1

\* every request waits on the one outstanding refresh
AllWaitOnOneRefresh ==
    \E k \in PendingOps : Waiters(k) = Requests

\* what request r got from `await this.refreshToken()`
Settlement(r) ==
    [token |-> req[r].newToken,
     error |-> IF req[r].rejection.src = "refresh" THEN req[r].rejection
               ELSE NoErr]

\* request r has resumed from the promise it awaited
Resumed(r) == req[r].awaits # 0 /\ req[r].pc \notin Awaiting

\* C2: requests that take the authentication failure while a refresh is
\* outstanding add no refresh call: they wait on that one operation, which
\* issued exactly one call, and all requests that waited on one operation
\* observe the same settlement (the same new token or the same failure).
SingleFlight ==
    /\ [][\A r \in Requests :
            (CallsRefreshToken(r) /\ PendingOps # {})
            => /\ req'[r].awaits \in PendingOps
               /\ Len(ops') = Len(ops)
               /\ CallsIssued(ops'[req'[r].awaits].log) = 1]_vars
    /\ [](\A r1, r2 \in Requests :
            (Resumed(r1) /\ Resumed(r2) /\ req[r1].awaits = req[r2].awaits)
            => Settlement(r1) = Settlement(r2))

\* two requests resumed from one refresh with the same new token
TwoResumedWithSameToken ==
    /\ Len(ops) = 1
    /\ \A r \in Requests :
         Resumed(r) /\ req[r].awaits = 1 /\ req[r].newToken = IssuedTokens[1]

\* C3: a request is re-dispatched at most once: when a request already
\* marked as retried fails again (also with 401) the failure is rejected to
\* the caller and no refresh is started or joined for it.
AtMostOneRetry ==
    /\ [][\A r \in Requests :
            (Handles(r) /\ req[r].retry)
            => /\ req'[r].pc = "rejected"
               /\ req'[r].rejection = req'[r].error
               /\ req'[r].error.attempt = 2
               /\ UNCHANGED <<ops, refreshPromise, tokenManager>>]_vars
    /\ [](\A r \in Requests : req[r].attempts <= 2)

\* a retried request was answered 401 again and rejected with that answer
RetriedRequestRejected ==
    \E r \in Requests :
        /\ req[r].pc = "rejected"
        /\ req[r].retry
        /\ req[r].rejection = RequestError(r, 2, 401, "TOKEN_EXPIRED")

\* C4: once a refresh has settled, an authentication failure handled
\* afterwards starts a new refresh: no request is handed a promise that had
\* already settled when its failure was handled.
NoStaleSettlement ==
    [][\A r \in Requests :
         CallsRefreshToken(r)
         => ~(/\ req'[r].awaits \in DOMAIN ops
              /\ ops[req'[r].awaits].state \in {"fulfilled", "rejected"})]_vars

\* C5 as stated: a 401 whose body carries no reserved error code is
\* rejected unchanged, with no refresh call and no retry.
BareUnauthorizedPassesThrough ==
    [][\A r \in Requests :
         (/\ Handles(r)
          /\ req'[r].error.status = 401
          /\ req'[r].error.code = "NO_CODE")
         => /\ req'[r].pc = "rejected"
            /\ req'[r].rejection = req'[r].error
            /\ req'[r].retry = req[r].retry
            /\ ops' = ops]_vars

\* C5 amended: the body's code is not consulted; a 401 without a reserved
\* code on a request not yet retried marks the request as retried and
\* makes it wait on a refresh (a new one, or the one in progress).
BareUnauthorizedRefreshes ==
    [][\A r \in Requests :
         (/\ Handles(r)
          /\ req'[r].error.status = 401
          /\ req'[r].error.code = "NO_CODE"
          /\ ~req[r].retry)
         => /\ req'[r].retry
            /\ req'[r].pc \in Awaiting
            /\ req'[r].awaits \in DOMAIN ops'
            /\ req'[r].awaits = refreshPromise']_vars

\* a refresh call is outstanding for a 401 that carried no reserved code
RefreshCallForBareUnauthorized ==
    \E r \in Requests :
        /\ req[r].pc = "awaitOwn"
        /\ req[r].error.code = "NO_CODE"
        /\ req[r].awaits \in PendingOps

\* C6: a failed response with a status other than 401 is rejected with the
\* same error; handling it starts and joins no refresh, retries nothing,
\* calls no callback and leaves the credential store, the retry marker and
\* the shared promise unchanged.
OtherFailuresPassThrough ==
    [][\A r \in Requests :
         (Handles(r) /\ req'[r].error.status # 401)
         => /\ req'[r].pc = "rejected"
            /\ req'[r].rejection = req'[r].error
            /\ req'[r].attempts = req[r].attempts
            /\ req'[r].retry = req[r].retry
            /\ req'[r].awaits = req[r].awaits
            /\ \A o \in Requests \ {r} : req'[o] = req[o]
            /\ UNCHANGED <<tokenManager, refreshPromise, ops>>]_vars

\* a 500 was rejected to its caller while a refresh was outstanding
ServerErrorRejectedDuringRefresh ==
    \E r \in Requests :
        /\ req[r].pc = "rejected"
        /\ req[r].rejection = RequestError(r, 1, 500, "NO_CODE")
        /\ ~req[r].retry
        /\ PendingOps # {}
        /\ refreshPromise \in PendingOps

\* this step resumes request r from a refresh that produced a token
ResumesWithToken(r) ==
    /\ req[r].pc = "awaitShared"
    /\ req'[r].pc # "awaitShared"
    /\ ops[req[r].awaits].state = "fulfilled"
    /\ ops[req[r].awaits].value # None

\* this step settles the second dispatch of request r
RetrySettles(r) ==
    req[r].pc = "inflight" /\ req[r].retry /\ req'[r] # req[r]

\* C7 as stated: after a successful refresh each request that waited on it
\* is re-dispatched exactly once, after the new token was written to the
\* store, with the new token as its bearer value, and the outcome of the
\* re-dispatch is what the caller receives.
RetryCarriesNewToken ==
    [][\A r \in Requests :
         /\ ResumesWithToken(r)
            => /\ req'[r].pc = "inflight"
               /\ req'[r].attempts = 2
               /\ Count(ops[req[r].awaits].log, "setAccessToken") = 1
               /\ req'[r].auth = ops[req[r].awaits].value
         /\ RetrySettles(r)
            => \/ req'[r].pc = "resolved"
               \/ /\ req'[r].pc = "rejected"
                  /\ req'[r].rejection.src = "request"
                  /\ req'[r].rejection.attempt = 2]_vars

\* C7 amended: the bearer value of the re-dispatch is the access token the
\* store holds at that moment, and the new token only if the store holds
\* none; the rest as stated.
RetryCarriesStoredToken ==
    [][\A r \in Requests :
         /\ ResumesWithToken(r)
            => /\ req'[r].pc = "inflight"
               /\ req'[r].attempts = 2
               /\ Count(ops[req[r].awaits].log, "setAccessToken") = 1
               /\ req'[r].newToken = ops[req[r].awaits].value
               /\ req'[r].auth = IF tokenManager.access # None
                                 THEN tokenManager.access
                                 ELSE ops[req[r].awaits].value
         /\ RetrySettles(r)
            => \/ req'[r].pc = "resolved"
               \/ /\ req'[r].pc = "rejected"
                  /\ req'[r].rejection.src = "request"
                  /\ req'[r].rejection.attempt = 2]_vars

\* a request is in flight again, sent with the token a later refresh stored
RetrySentWithLaterToken ==
    \E r \in Requests :
        /\ req[r].pc = "inflight"
        /\ req[r].attempts = 2
        /\ req[r].newToken = IssuedTokens[1]
        /\ req[r].auth = IssuedTokens[2]

\* C8: when a refresh produces no token, for whatever reason, every
\* request that waited on it rejects with its own original 401 error.
RejectsWithOriginalError ==
    \A r \in Requests :
        (req[r].pc = "rejected" /\ req[r].retry /\ req[r].attempts = 1)
        => req[r].rejection = req[r].error

\* C9: when a refresh fails while several requests wait on it,
\* onUnauthorized is called exactly once for that refresh.
UnauthorizedOncePerFailedRefresh ==
    [][\A k \in DOMAIN ops :
         (/\ ops[k].state = "pending"
          /\ ops'[k].state = "fulfilled"
          /\ ops'[k].value = None
          /\ Cardinality(Waiters(k)) >= 2)
         => Count(ops'[k].log, "onUnauthorized") = 1]_vars

\* C10: every refresh that fails (missing refresh token, no refresh
\* service, failed call, response without access token) has cleared the
\* stored credentials and called onUnauthorized.
FailureClearsAndNotifies ==
    \A k \in DOMAIN ops :
        (ops[k].state = "fulfilled" /\ ops[k].value = None)
        => /\ Count(ops[k].log, "clearTokens") = 1
           /\ Count(ops[k].log, "onUnauthorized") = 1

\* ---------------------------------------------------- refresh request, C11+
\* this step starts a run of performTokenRefresh
StartsRefresh == Len(ops') = Len(ops) + 1

\* options.services has no service with a refreshEndpoint
NoRefreshEndpoint ==
    \A i \in DOMAIN options.services : ~options.services[i].refreshEndpoint

\* C11: when no configured service declares a refresh endpoint, an
\* authentication failure triggers no refresh network call: the refresh
\* fails at once (the promise is settled with no token when refreshToken
\* returns it) and onUnauthorized is invoked.
NoEndpointFailsWithoutCall ==
    [][(StartsRefresh /\ NoRefreshEndpoint /\ ~options.onRefreshRequest
        /\ ops'[Len(ops')].state # "rejected")
       => LET p == ops'[Len(ops')]
          IN /\ CallsIssued(p.log) = 0
             /\ p.state = "fulfilled"
             /\ p.value = None
             /\ Count(p.log, "onUnauthorized") = 1]_vars

\* this step sends request r: its first dispatch or its re-dispatch
Sends(r) == req[r].pc # "inflight" /\ req'[r].pc = "inflight"

FirstDispatch(r) == Sends(r) /\ req[r].pc # "awaitShared"

Redispatch(r) == Sends(r) /\ req[r].pc = "awaitShared"

Idle == {"new", "resolved", "rejected"}

UnaffectedByRefresh ==
    /\ [](\A r \in Requests :
            /\ req[r].pc \in Idle => ENABLED Dispatch(r)
            /\ req[r].pc = "inflight" => ENABLED Succeed(r))
    /\ [][\A r \in Requests :
            /\ (req[r].pc = "inflight" /\ req'[r].pc = "resolved")
               => /\ req'[r] = [req[r] EXCEPT !.pc = "resolved"]
                  /\ UNCHANGED <<tokenManager, refreshPromise, ops>>
            /\ (req[r].pc = "inflight" /\ ~Handles(r)
                /\ <<ops, refreshPromise>>' # <<ops, refreshPromise>>)
               => req'[r] = req[r]]_vars

\* a request that never got a 401 has completed while another request
\* waits on the refresh it started
ResolvedDuringRefresh ==
    \E r, o \in Requests :
        /\ req[r].pc = "resolved"
        /\ ~req[r].retry
        /\ req[o].pc = "awaitOwn"
        /\ ops[req[o].awaits].state = "pending"

\* C15: after a successful automatic refresh both tokens of the refresh
\* response are written to the store: setRefreshToken is called and the
\* stored refresh token is the one the response returned.
RefreshStoresBothTokens ==
    [][\A k \in DOMAIN ops :
         (/\ ~options.onRefreshRequest
          /\ ops[k].state = "pending"
          /\ ops'[k].state = "fulfilled"
          /\ ops'[k].value # None)
         => /\ tokenManager'.access = ops'[k].value
            /\ Count(ops'[k].log, "setRefreshToken") = 1
            /\ tokenManager'.refresh = IssuedRefreshTokens[k]]_vars

\* this step gives a refresh request to axios.request
SendsRefreshRequest ==
    StartsRefresh /\ Count(ops'[Len(ops')].log, "axios.request") = 1

\* C16 as stated: the refresh request carries the refresh token in its
\* body, which has exactly the field refreshToken with the value that
\* getRefreshToken returned.
RefreshTokenInBody ==
    [][SendsRefreshRequest
       => refreshRequest'.data = {<<"refreshToken", tokenManager.refresh>>}
      ]_vars

\* C16 amended: the refresh request carries the value getRefreshToken
\* returned in its Authorization header, after the prefix Bearer; its body
\* is the configured refreshRequestBody, by default the empty object, and
\* has no refreshToken field.
RefreshTokenInHeader ==
    [][SendsRefreshRequest
       => /\ tokenManager.refresh # None
          /\ refreshRequest'.header =
               [name |-> "Authorization", prefix |-> "Bearer",
                token |-> tokenManager.refresh]
          /\ refreshRequest'.method = "post"
          /\ refreshRequest'.data = {}]_vars

\* a refresh request with the stored refresh token is awaiting its reply
RefreshRequestSent ==
    /\ refreshRequest.header.token = "r0"
    /\ refreshPromise \in PendingOps
    /\ Count(ops[refreshPromise].log, "axios.request") = 1

\* ------------------------------------------- ApiService: direct methods
Methods == {"get", "post", "put", "patch", "delete"}

\* the methods that take a data argument
WithData == {"post", "put", "patch"}

Urls == {"/users", "/users/1"}

\* the caller's data and config arguments: left out (undefined) or given
Payloads == {None, "requestData"}

Configs == {None, "requestConfig"}

\* what the transport (the axios instance of the service) answers
ResponseBodies == {"mockData", "otherData"}

TransportErrors == {"AxiosError 500", "Network Error"}

\* one ApiConfig, initialised, with nothing in progress
CoreAtRest ==
    /\ CoreInit
    /\ options.onRefreshRequest
    /\ tokenManager = [access |-> "t0", refresh |-> "r0"]

\* faulty forwarding: the caller's config is dropped
TransportCallWithoutConfig(method, url, data, config) ==
    [method |-> method,
     args |-> IF method \in WithData THEN <<url, data, None>>
              ELSE <<url, None>>]

\* the call a direct method makes on this.axiosInstance
TransportCall(method, url, data, config) ==
    [method |-> method,
     args |-> IF method \in WithData THEN <<url, data, config>>
              ELSE <<url, config>>]

\* get/post/put/patch/delete up to `await this.axiosInstance.<method>(...)`
DirectMethod(method, url, data, config) ==
    /\ call.pc = "idle"
    /\ call' = [call EXCEPT
                  !.pc = "awaiting", !.method = method, !.url = url,
                  !.data = data, !.config = config,
                  !.transport = Append(@, TransportCall(method, url, data,
                                                        config))]
    /\ UNCHANGED <<core, mutation, retryCfg, msgCall, registry>>

\* the transport resolves with a response: `return response.data`
TransportResolves(body) ==
    /\ call.pc = "awaiting"
    /\ LET response == [data |-> body, status |-> "200"]
       IN call' = [call EXCEPT
                     !.pc = "returned",
                     !.settled = [state |-> "fulfilled",
                                  response |-> response, error |-> None],
                     !.result = [state |-> "fulfilled",
                                 value |-> response.data]]
    /\ UNCHANGED <<core, mutation, retryCfg, msgCall, registry>>

\* the transport rejects: the await throws and the method's promise rejects
TransportRejects(err) ==
    /\ call.pc = "awaiting"
    /\ call' = [call EXCEPT
                  !.pc = "returned",
                  !.settled = [state |-> "rejected",
                               response |-> [data |-> None, status |-> None],
                               error |-> err],
                  !.result = [state |-> "rejected", value |-> err]]
    /\ UNCHANGED <<core, mutation, retryCfg, msgCall, registry>>

InitDirect ==
    /\ CoreAtRest
    /\ call = IdleCall
    /\ mutation = IdleMutation(BareMutation)
    /\ retryCfg = RetryConfig(DefaultMaxRetries, DefaultBaseDelay)
    /\ msgCall = NoMessageCall
    /\ RegistryAtRest

NextDirect ==
    \/ \E method \in Methods, url \in Urls, config \in Configs :
         \E data \in (IF method \in WithData THEN Payloads ELSE {None}) :
            DirectMethod(method, url, data, config)
    \/ \E body \in ResponseBodies : TransportResolves(body)
    \/ \E err \in TransportErrors : TransportRejects(err)

SpecDirect == InitDirect /\ [][NextDirect]_vars

\* C17: each direct method forwards exactly one call to the transport, of
\* the same method, with the caller's url, data (for post, put and patch)
\* and config; it resolves to the data field of the transport's response
\* and rejects with the transport's rejection, unchanged.
DirectMethodForwardsOnce ==
    /\ call.pc # "idle"
       => /\ Len(call.transport) = 1
          /\ call.transport[1].method = call.method
          /\ call.transport[1].args =
               IF call.method \in WithData
               THEN <<call.url, call.data, call.config>>
               ELSE <<call.url, call.config>>
    /\ call.pc = "awaiting" => call.result.state = "pending"
    /\ call.pc = "returned"
       => /\ call.result.state = call.settled.state
          /\ call.settled.state = "fulfilled"
             => call.result.value = call.settled.response.data
          /\ call.settled.state = "rejected"
             => call.result.value = call.settled.error

\* a post with data and config has resolved to the response's data
PostResolvedToData ==
    /\ call.pc = "returned"
    /\ call.method = "post"
    /\ call.transport = << [method |-> "post",
                            args |-> <<"/users", "requestData",
                                       "requestConfig">>] >>
    /\ call.result = [state |-> "fulfilled", value |-> "mockData"]

\* ------------------------------------------------ ApiService.useMutation
\* what the caller passes to useMutation: successMessage, errorMessage and
\* keyToInvalidate, its own callbacks in options (onSuccess, onError and
\* onSettled), and whether ApiConfig has a notificationManager
MutationConfigs ==
    [successMessage : BOOLEAN, errorMessage : BOOLEAN,
     notificationManager : BOOLEAN, keyToInvalidate : BOOLEAN,
     callbacks : BOOLEAN]

\* the calls made when a condition holds
When(cond, calls) == IF cond THEN calls ELSE <<>>

\* faulty wrapper: the caller's callback runs before the notification
OnSuccessCallbackFirst(cfg) ==
    When(cfg.callbacks, << "options.onSuccess" >>)
    \o When(cfg.successMessage /\ cfg.notificationManager,
            << "notificationManager.success" >>)
    \o When(cfg.keyToInvalidate, << "invalidateQueries" >>)

\* the onSuccess that useMutation installs (the sink, the query client and
\* the caller's callbacks return normally)
OnSuccess(cfg) ==
    When(cfg.successMessage /\ cfg.notificationManager,
         << "notificationManager.success" >>)
    \o When(cfg.keyToInvalidate, << "invalidateQueries" >>)
    \o When(cfg.callbacks, << "options.onSuccess" >>)

\* the onError that useMutation installs
OnError(cfg) ==
    When(cfg.errorMessage /\ cfg.notificationManager,
         << "notificationManager.error" >>)
    \o When(cfg.callbacks, << "options.onError" >>)

\* the onSettled that useMutation installs
OnSettled(cfg) == When(cfg.callbacks, << "options.onSettled" >>)

\* mutate(variables): the mutation function sends the request
Mutate ==
    /\ mutation.pc = "idle"
    /\ mutation' = [mutation EXCEPT !.pc = "pending",
                                    !.calls = << "mutationFn" >>]
    /\ UNCHANGED <<core, call, retryCfg, msgCall, registry>>

\* the mutation function resolves: onSuccess runs
MutationSucceeds ==
    /\ mutation.pc = "pending"
    /\ mutation' = [mutation EXCEPT
                      !.pc = "success",
                      !.calls = @ \o OnSuccess(mutation.cfg)]
    /\ UNCHANGED <<core, call, retryCfg, msgCall, registry>>

\* the mutation function rejects: onError runs
MutationFails ==
    /\ mutation.pc = "pending"
    /\ mutation' = [mutation EXCEPT
                      !.pc = "error",
                      !.calls = @ \o OnError(mutation.cfg)]
    /\ UNCHANGED <<core, call, retryCfg, msgCall, registry>>

\* after onSuccess or onError: onSettled runs
MutationSettled ==
    /\ mutation.pc \in {"success", "error"}
    /\ mutation' = [mutation EXCEPT
                      !.pc = IF @ = "success" THEN "settledSuccess"
                             ELSE "settledError",
                      !.calls = @ \o OnSettled(mutation.cfg)]
    /\ UNCHANGED <<core, call, retryCfg, msgCall, registry>>

InitMutation ==
    /\ CoreAtRest
    /\ call = IdleCall
    /\ mutation \in {IdleMutation(cfg) : cfg \in MutationConfigs}
    /\ retryCfg = RetryConfig(DefaultMaxRetries, DefaultBaseDelay)
    /\ msgCall = NoMessageCall
    /\ RegistryAtRest

NextMutation ==
    \/ Mutate
    \/ MutationSucceeds
    \/ MutationFails
    \/ MutationSettled

SpecMutation == InitMutation /\ [][NextMutation]_vars

\* the position of the first call named c in calls, 0 if there is none
Position(calls, c) ==
    IF \E i \in DOMAIN calls : calls[i] = c
    THEN CHOOSE i \in DOMAIN calls :
            calls[i] = c /\ \A j \in DOMAIN calls : calls[j] = c => i <= j
    ELSE 0

\* how many times the call named c is in calls
Times(calls, c) == Cardinality({i \in DOMAIN calls : calls[i] = c})

\* call a, if made, was made before call b
Precedes(calls, a, b) ==
    Position(calls, a) # 0 => Position(calls, a) < Position(calls, b)

Succeeded == mutation.pc \in {"success", "settledSuccess"}

Failed == mutation.pc \in {"error", "settledError"}

\* C18: when a mutation settles the notification sink is called at most
\* once and only on the matching path: success(successMessage) exactly when
\* the mutation succeeded and both the message and a notificationManager
\* are configured, error(errorMessage) exactly when it failed and both are
\* configured; the caller's own onSuccess (on success) or onError (on
\* failure) is invoked once whatever is configured, after the notification
\* and, on success, after the query invalidation.
NotifiesOnMatchingPath ==
    LET calls == mutation.calls
        cfg == mutation.cfg
        ok == "notificationManager.success"
        ko == "notificationManager.error"
    IN /\ Times(calls, ok) + Times(calls, ko) <= 1
       /\ Times(calls, ok) =
            IF Succeeded /\ cfg.successMessage /\ cfg.notificationManager
            THEN 1 ELSE 0
       /\ Times(calls, ko) =
            IF Failed /\ cfg.errorMessage /\ cfg.notificationManager
            THEN 1 ELSE 0
       /\ Times(calls, "options.onSuccess") =
            IF Succeeded /\ cfg.callbacks THEN 1 ELSE 0
       /\ Times(calls, "options.onError") =
            IF Failed /\ cfg.callbacks THEN 1 ELSE 0
       /\ (Succeeded /\ cfg.callbacks)
          => /\ Precedes(calls, ok, "options.onSuccess")
             /\ Precedes(calls, "invalidateQueries", "options.onSuccess")
             /\ cfg.keyToInvalidate
                => Times(calls, "invalidateQueries") = 1
       /\ (Failed /\ cfg.callbacks) => Precedes(calls, ko, "options.onError")

\* a successful mutation has notified, invalidated and then called the
\* caller's onSuccess
NotifiedThenCalledBack ==
    /\ mutation.pc = "success"
    /\ mutation.calls = << "mutationFn", "notificationManager.success",
                           "invalidateQueries", "options.onSuccess" >>

\* ------------------------------------------------------ createRetryConfig
\* largest maxRetries given to createRetryConfig
MaxMaxRetries == 4

\* largest failureCount given to retry
MaxFailureCount == 5

\* calls of retryDelay, with attempt indexes 0, 1, 2, ...
MaxAttempts == 7

\* base delays in milliseconds (durations: none is negative)
BaseDelays == {0, 1, 500, 1000, 30000, 40000}

\* response statuses, with the neighbours of every status the code
\* compares with; 0 stands for an error without a response
Statuses == {0, 200, 399, 400, 401, 404, 407, 408, 409, 428, 429, 430,
             499, 500, 503}

\* the errors given to retry: null, a string, an object without the
\* isAxiosError property (an Error) and objects with it (marker)
RetryErrors ==
    { [kind |-> "null", marker |-> FALSE, status |-> 0],
      [kind |-> "string", marker |-> FALSE, status |-> 0],
      [kind |-> "object", marker |-> FALSE, status |-> 0] }
    \cup [kind : {"object"}, marker : {TRUE}, status : Statuses]

\* error !== null && typeof error === "object" && "isAxiosError" in error
IsAxiosError(error) ==
    error.kind # "null" /\ error.kind = "object" /\ error.marker

\* faulty retry: 408 and 429 are refused like every other 4xx
RetryNo4xx(maxRetries, failureCount, error) ==
    IF IsAxiosError(error) /\ error.status # 0
       /\ error.status >= 400 /\ error.status < 500
    THEN FALSE
    ELSE failureCount < maxRetries

\* createRetryConfig(maxRetries).retry(failureCount, error)
Retry(maxRetries, failureCount, error) ==
    IF IsAxiosError(error) /\ error.status # 0
       /\ error.status >= 400 /\ error.status < 500
       /\ error.status # 408 /\ error.status # 429
    THEN FALSE
    ELSE failureCount < maxRetries

\* Math.min
Min(a, b) == IF a <= b THEN a ELSE b

\* faulty delay: the cap is missing
RetryDelayUncapped(baseDelay, attemptIndex) == baseDelay * 2 ^ attemptIndex

\* createRetryConfig(maxRetries, baseDelay).retryDelay(attemptIndex)
RetryDelay(baseDelay, attemptIndex) ==
    Min(baseDelay * 2 ^ attemptIndex, MaxRetryDelay)

\* a call of retry
CallRetry(failureCount, error) ==
    /\ retryCfg' = [retryCfg EXCEPT
                      !.called = TRUE,
                      !.failureCount = failureCount,
                      !.error = error,
                      !.retry = Retry(retryCfg.maxRetries, failureCount,
                                      error)]
    /\ UNCHANGED <<core, call, mutation, msgCall, registry>>

\* the next call of retryDelay: its attempt index is the number of calls
\* made before it
CallRetryDelay ==
    /\ Len(retryCfg.delays) < MaxAttempts
    /\ retryCfg' = [retryCfg EXCEPT
                      !.delays = Append(@, RetryDelay(retryCfg.baseDelay,
                                                      Len(@)))]
    /\ UNCHANGED <<core, call, mutation, msgCall, registry>>

InitRetry ==
    /\ CoreAtRest
    /\ call = IdleCall
    /\ mutation = IdleMutation(BareMutation)
    /\ retryCfg \in {RetryConfig(m, b) : m \in 0..MaxMaxRetries,
                                          b \in BaseDelays}
    /\ msgCall = NoMessageCall
    /\ RegistryAtRest

NextRetry ==
    \/ \E failureCount \in 0..MaxFailureCount, error \in RetryErrors :
         CallRetry(failureCount, error)
    \/ CallRetryDelay

SpecRetry == InitRetry /\ [][NextRetry]_vars

\* C19: retry(failureCount, error) returns false for every axios error
\* whose response status is in 400..499 other than 408 and 429, whatever
\* failureCount is; for every other error it returns true exactly when
\* failureCount < maxRetries.
RetriesOnlyTransientFailures ==
    retryCfg.called
    => LET e == retryCfg.error
           refused == /\ e.kind = "object"
                      /\ e.marker
                      /\ e.status \in (400..499) \ {408, 429}
       IN IF refused
          THEN retryCfg.retry = FALSE
          ELSE retryCfg.retry
               <=> (retryCfg.failureCount < retryCfg.maxRetries)

\* a 429 was retried after two failures, a third retry being allowed
RateLimitedRetried ==
    /\ retryCfg.called
    /\ retryCfg.error = [kind |-> "object", marker |-> TRUE, status |-> 429]
    /\ retryCfg.failureCount = 2
    /\ retryCfg.maxRetries = 3
    /\ retryCfg.retry

\* C20: retryDelay(n) equals baseDelay * 2^n for every attempt index n >= 0
\* until that value exceeds 30000 and equals 30000 from then on; it is
\* non-decreasing in n and never exceeds 30000.
RetryDelayDoublesToCap ==
    \A i \in DOMAIN retryCfg.delays :
        LET n == i - 1
            doubled == retryCfg.baseDelay * 2 ^ n
            delay == retryCfg.delays[i]
        IN /\ doubled <= 30000 => delay = doubled
           /\ doubled > 30000 => delay = 30000
           /\ delay <= 30000
           /\ \A j \in 1..(i - 1) :
                /\ retryCfg.delays[j] <= delay
                /\ retryCfg.baseDelay * 2 ^ (j - 1) > 30000 => delay = 30000

\* the default base delay has doubled four times and was then capped twice
DelayDoubledThenCapped ==
    retryCfg.delays = << 1000, 2000, 4000, 8000, 16000, 30000, 30000 >>

\* -------------------------------------------------------- getErrorMessage
\* a value is truthy: neither undefined nor the empty string
Truthy(v) == v \notin {Undefined, ""}

\* the arguments: null, a string, a number, a plain object, Errors, and
\* objects with the isAxiosError property, with or without a response
MessageErrors ==
    { ErrorValue(k, FALSE, FALSE, Undefined, FALSE, Undefined, "undefined",
                 Undefined, Undefined) :
        k \in {"null", "string", "number", "object"} }
    \cup { ErrorValue("object", FALSE, TRUE, m, FALSE, Undefined,
                      "undefined", Undefined, Undefined) :
             m \in {"", "Regular error"} }
    \cup { ErrorValue("object", TRUE, e, m, FALSE, Undefined, "undefined",
                      Undefined, Undefined) :
             e \in BOOLEAN, m \in {Undefined, "", "Network Error"} }
    \cup { ErrorValue("object", TRUE, e, m, TRUE, t, d[1], d[2], d[3]) :
             e \in BOOLEAN, m \in {Undefined, "", "Network Error"},
             t \in {Undefined, "", "Not Found"},
             d \in { <<"undefined", Undefined, Undefined>>,
                     <<"null", Undefined, Undefined>>,
                     <<"string", "", Undefined>>,
                     <<"string", "Custom error message", Undefined>>,
                     <<"object", Undefined, Undefined>>,
                     <<"object", Undefined, "">>,
                     <<"object", Undefined, "Object error message">> } }

\* typeof apiError?.detail (typeof null is "object")
TypeOfDetail(error) ==
    IF ~error.response THEN "undefined"
    ELSE IF error.detailType = "null" THEN "object"
    ELSE error.detailType

\* faulty precedence: the statusText is taken before the detail
GetErrorMessageStatusFirst(error) ==
    IF IsAxiosError(error)
    THEN IF error.response /\ Truthy(error.statusText)
         THEN error.statusText
         ELSE IF TypeOfDetail(error) = "string" THEN error.detail
         ELSE IF TypeOfDetail(error) = "object"
                 /\ Truthy(error.detailMessage)
         THEN error.detailMessage
         ELSE IF Truthy(error.message) THEN error.message
         ELSE "An error occurred"
    ELSE IF error.isError THEN error.message
    ELSE "An unknown error occurred"

\* getErrorMessage(error)
GetErrorMessage(error) ==
    IF IsAxiosError(error)
    THEN IF TypeOfDetail(error) = "string" THEN error.detail
         ELSE IF TypeOfDetail(error) = "object"
                 /\ Truthy(error.detailMessage)
         THEN error.detailMessage
         ELSE IF error.response /\ Truthy(error.statusText)
         THEN error.statusText
         ELSE IF Truthy(error.message) THEN error.message
         ELSE "An error occurred"
    ELSE IF error.isError THEN error.message
    ELSE "An unknown error occurred"

\* a call of getErrorMessage
CallGetErrorMessage ==
    /\ ~msgCall.called
    /\ msgCall' = [msgCall EXCEPT !.called = TRUE,
                                   !.result = GetErrorMessage(msgCall.error)]
    /\ UNCHANGED <<core, call, mutation, retryCfg, registry>>

InitMessage ==
    /\ CoreAtRest
    /\ call = IdleCall
    /\ mutation = IdleMutation(BareMutation)
    /\ retryCfg = RetryConfig(DefaultMaxRetries, DefaultBaseDelay)
    /\ msgCall \in {MessageCall(error) : error \in MessageErrors}
    /\ RegistryAtRest

NextMessage == CallGetErrorMessage

SpecMessage == InitMessage /\ [][NextMessage]_vars

\* the first of the candidate messages that is there
RECURSIVE FirstPresent(_)
FirstPresent(candidates) ==
    IF Head(candidates) # None THEN Head(candidates)
    ELSE FirstPresent(Tail(candidates))

\* C21: getErrorMessage picks the message by a fixed precedence: for an
\* axios error a string response detail, else the detail object's message,
\* else the response's statusText, else the error's own message, else
\* "An error occurred"; for a non-axios Error its message; for anything
\* else "An unknown error occurred".
MessageByPrecedence ==
    msgCall.called
    => LET e == msgCall.error
           axios == e.kind = "object" /\ e.marker
           stringDetail ==
               IF e.response /\ e.detailType = "string" THEN e.detail
               ELSE None
           objectMessage ==
               IF e.response /\ e.detailType = "object"
                  /\ e.detailMessage \notin {Undefined, ""}
               THEN e.detailMessage ELSE None
           statusText ==
               IF e.response /\ e.statusText \notin {Undefined, ""}
               THEN e.statusText ELSE None
           ownMessage ==
               IF e.message \notin {Undefined, ""} THEN e.message ELSE None
       IN msgCall.result =
            IF axios
            THEN FirstPresent(<< stringDetail, objectMessage, statusText,
                                 ownMessage, "An error occurred" >>)
            ELSE IF e.isError THEN e.message
            ELSE "An unknown error occurred"

\* the detail object's message was taken although a statusText and a
\* message of the error were there
ObjectDetailBeforeStatusText ==
    /\ msgCall.called
    /\ msgCall.error.detailMessage = "Object error message"
    /\ msgCall.error.statusText = "Not Found"
    /\ msgCall.error.message = "Network Error"
    /\ msgCall.result = "Object error message"

\* ------------------------------------------- ApiConfig singleton, ApiClient
\* service names, in the order in which an options object lists them
ServiceNames == << "api", "auth", "extra" >>

Names == {ServiceNames[i] : i \in DOMAIN ServiceNames}

\* Object.entries(options.services): the configured names in their order
Entries(names) == SelectSeq(ServiceNames, LAMBDA n : n \in names)

\* the error messages, by their distinguishing part
NotInitialized == "must be initialized before creating ApiService"

NoInstance == "must be initialized with options first"

NotConfigured == "not found in configuration"

NotRegistered == "not found. Available services"

\* ApiConfig.isInitialized(): instance !== null
IsInitialized(inst) == inst.state # "null"

\* ApiConfig.getInstance(): the error it throws, None if it returns
GetInstance(inst) ==
    IF inst.state \in {"undefined", "null"} THEN NoInstance ELSE None

\* faulty lookup: a transport is made for any name
CreateAxiosInstanceAnyName(inst, name) == None

\* createAxiosInstance(name) on the instance: the error it throws, None if
\* it returns a transport
CreateAxiosInstance(inst, name) ==
    IF name \notin inst.services THEN NotConfigured ELSE None

\* new ApiService(name): the error it throws, None if it returns
NewApiService(inst, name) ==
    IF ~IsInitialized(inst) THEN NotInitialized
    ELSE IF GetInstance(inst) # None THEN GetInstance(inst)
    ELSE CreateAxiosInstance(inst, name)

\* Map.prototype.has, set and delete on the keys in insertion order
MapHas(keys, name) == \E i \in DOMAIN keys : keys[i] = name

MapSet(keys, name) == IF MapHas(keys, name) THEN keys ELSE Append(keys, name)

\* faulty delete: the oldest key is removed, whatever the name
MapDeleteOldest(keys, name) == IF keys = <<>> THEN keys ELSE Tail(keys)

MapDelete(keys, name) == SelectSeq(keys, LAMBDA n : n # name)

\* ApiConfig.initialize(options)
Initialize(names) ==
    /\ instance' = InstanceOf(names)
    /\ UNCHANGED <<core, call, mutation, retryCfg, msgCall, client>>

\* ApiConfig.reset()
Reset ==
    /\ instance' = InstanceNull
    /\ UNCHANGED <<core, call, mutation, retryCfg, msgCall, client>>

\* ApiConfig.getInstance().createAxiosInstance(name)
CreateTransport(name) ==
    /\ GetInstance(instance) = None
    /\ LET err == CreateAxiosInstance(instance, name)
       IN client' = [client EXCEPT
                       !.last = Outcome("createAxiosInstance", name, err,
                                        IF err = None THEN "transport"
                                        ELSE None)]
    /\ UNCHANGED <<core, call, mutation, retryCfg, msgCall, instance>>

\* new ApiService(name), outside any ApiClient
ConstructService(name) ==
    /\ LET err == NewApiService(instance, name)
       IN client' = [client EXCEPT
                       !.last = Outcome("new ApiService", name, err,
                                        IF err = None THEN "service"
                                        ELSE None)]
    /\ UNCHANGED <<core, call, mutation, retryCfg, msgCall, instance>>

\* the first error of new ApiService over the names, None if all succeed
RECURSIVE FirstError(_, _)
FirstError(inst, names) ==
    IF names = <<>> THEN None
    ELSE IF NewApiService(inst, Head(names)) # None
    THEN NewApiService(inst, Head(names))
    ELSE FirstError(inst, Tail(names))

\* new ApiClient(options): initializeServices registers a service for each
\* configured name; an error leaves no client
ConstructClient(names) ==
    /\ LET err == FirstError(instance, Entries(names))
       IN client' =
            IF err = None
            THEN [created |-> TRUE, options |-> names,
                  services |-> Entries(names),
                  last |-> Outcome("new ApiClient", None, None, "client")]
            ELSE [client EXCEPT
                    !.last = Outcome("new ApiClient", None, err, None)]
    /\ UNCHANGED <<core, call, mutation, retryCfg, msgCall, instance>>

\* client.addService(name, config)
AddService(name) ==
    /\ client.created
    /\ LET err == NewApiService(instance, name)
       IN client' = [client EXCEPT
                       !.services = IF err = None THEN MapSet(@, name)
                                    ELSE @,
                       !.last = Outcome("addService", name, err, None)]
    /\ UNCHANGED <<core, call, mutation, retryCfg, msgCall, instance>>

\* client.removeService(name)
RemoveService(name) ==
    /\ client.created
    /\ client' = [client EXCEPT
                    !.services = MapDelete(@, name),
                    !.last = Outcome("removeService", name, None,
                                     IF MapHas(client.services, name)
                                     THEN "true" ELSE "false")]
    /\ UNCHANGED <<core, call, mutation, retryCfg, msgCall, instance>>

\* client.getService(name)
GetService(name) ==
    /\ client.created
    /\ client' = [client EXCEPT
                    !.last = IF MapHas(client.services, name)
                             THEN Outcome("getService", name, None,
                                          "service")
                             ELSE Outcome("getService", name, NotRegistered,
                                          None)]
    /\ UNCHANGED <<core, call, mutation, retryCfg, msgCall, instance>>

\* client.getAvailableServices()
GetAvailableServices(c) == c.services

InitClient ==
    /\ CoreAtRest
    /\ call = IdleCall
    /\ mutation = IdleMutation(BareMutation)
    /\ retryCfg = RetryConfig(DefaultMaxRetries, DefaultBaseDelay)
    /\ msgCall = NoMessageCall
    /\ instance = InstanceUndefined
    /\ client = NoClient

NextClient ==
    \/ \E names \in SUBSET Names : Initialize(names)
    \/ Reset
    \/ \E name \in Names : CreateTransport(name)
    \/ \E name \in Names : ConstructService(name)
    \/ \E names \in SUBSET Names : ConstructClient(names)
    \/ \E name \in Names : AddService(name)
    \/ \E name \in Names : RemoveService(name)
    \/ \E name \in Names : GetService(name)

SpecClient == InitClient /\ [][NextClient]_vars

\* C22: after any sequence of initialize and reset calls, the empty one
\* included, isInitialized() is true exactly when getInstance() returns an
\* instance instead of throwing; while it is false, constructing an
\* ApiService fails with the "must be initialized before creating
\* ApiService" error.
InitializedIffInstance ==
    /\ IsInitialized(instance) <=> (GetInstance(instance) = None)
    /\ instance.state # "instance"
       => \A name \in Names : NewApiService(instance, name) = NotInitialized

\* the names a key sequence holds
Range(keys) == {keys[i] : i \in DOMAIN keys}

\* this step is a call whose outcome is client'.last
Calls(op) == client'.last # client.last /\ client'.last.op = op

\* C29: with ApiConfig initialised, asking for a transport for a name that
\* is not among the configured services throws "not found in
\* configuration" and creates nothing, in createAxiosInstance, in the
\* ApiService constructor and in ApiClient.addService, which leaves the
\* client's registered services unchanged.
UnknownServiceCreatesNothing ==
    [][\A op \in {"createAxiosInstance", "new ApiService", "addService"} :
         (/\ Calls(op)
          /\ instance.state = "instance"
          /\ client'.last.name \notin instance.services)
         => /\ client'.last.threw = NotConfigured
            /\ client'.last.returned = None
            /\ client'.services = client.services
            /\ client'.created = client.created]_vars

\* addService with a name that is not configured has thrown, the client
\* keeping its services
AddUnknownServiceRejected ==
    /\ client.created
    /\ client.last = Outcome("addService", "extra", NotConfigured, None)
    /\ client.services = << "api", "auth" >>
    /\ instance = InstanceOf({"api", "auth"})

\* C30: the available services are the initially configured names, plus
\* each name added successfully, minus each name removed; getService(name)
\* returns a service if and only if the name is among them and throws
\* otherwise; removeService(name) returns true if and only if it was.
RegistryTracksAddAndRemove ==
    /\ [](/\ Len(GetAvailableServices(client))
             = Cardinality(Range(GetAvailableServices(client)))
          /\ (client.last.op = "new ApiClient" /\ client.last.threw = None)
             => Range(GetAvailableServices(client)) = client.options)
    /\ [][LET o == client'.last
              before == Range(GetAvailableServices(client))
              after == Range(GetAvailableServices(client'))
          IN /\ Calls("addService")
                => after = IF o.threw = None THEN before \cup {o.name}
                           ELSE before
             /\ Calls("removeService")
                => /\ after = before \ {o.name}
                   /\ o.returned = IF o.name \in before THEN "true"
                                   ELSE "false"
             /\ Calls("getService")
                => /\ after = before
                   /\ o.name \in before
                      => (o.returned = "service" /\ o.threw = None)
                   /\ o.name \notin before
                      => (o.returned = None /\ o.threw = NotRegistered)
         ]_vars

\* a configured name was removed and added again: it is available, now
\* after the name that stayed
RemovedAndAddedAgain ==
    /\ client.created
    /\ client.options = {"api", "auth"}
    /\ GetAvailableServices(client) = << "auth", "api" >>
    /\ client.last = Outcome("addService", "api", None, None)

\* ------------------------------------------- refresh coordination, C23+
\* C24: the single-flight guard is shared across services: a request that
\* gets a 401 while a request issued through another service's transport
\* waits on the shared refresh joins that refresh, and no further refresh
\* operation or refresh call is started.
SingleFlightAcrossServices ==
    [][\A r, o \in Requests :
         (/\ CallsRefreshToken(r)
          /\ refreshPromise # 0
          /\ req[o].pc \in Awaiting
          /\ req[o].awaits = refreshPromise
          /\ req[o].service # req[r].service)
         => /\ req'[r].awaits = req[o].awaits
            /\ ops' = ops
            /\ refreshPromise' = refreshPromise]_vars

\* requests of two services wait on one pending refresh with one call
TwoServicesWaitOnOneRefresh ==
    \E r, o \in Requests :
        /\ req[r].service # req[o].service
        /\ req[r].pc = "awaitOwn"
        /\ req[o].pc = "awaitShared"
        /\ req[o].awaits = req[r].awaits
        /\ PendingOps = {req[r].awaits}
        /\ CallsIssued(ops[req[r].awaits].log) = 1
        /\ Len(ops) = 1

\* in this step the catch block of operation k is entered from its
\* pending refresh call: the call (axios.request or onRefreshRequest) threw
RefreshCallThrows(k) ==
    /\ k \in DOMAIN ops
    /\ ops[k].state = "pending"
    /\ Len(ops'[k].log) > Len(ops[k].log)
    /\ ops'[k].log[Len(ops[k].log) + 1].call = "clearTokens"

\* C25: the refresh call does not pass through the response handler: a
\* step that settles a pending refresh settles it for good, with the one
\* refresh call it made and without starting another operation or touching
\* a request; when the refresh call fails the operation ends with no token.
RefreshFailureEndsRefresh ==
    [][\A k \in DOMAIN ops :
         /\ (ops[k].state = "pending" /\ ops'[k] # ops[k])
            => /\ ops'[k].state \in {"fulfilled", "rejected"}
               /\ CallsIssued(ops'[k].log) = 1
               /\ Len(ops') = Len(ops)
               /\ refreshPromise' = refreshPromise
               /\ req' = req
         /\ RefreshCallThrows(k)
            => /\ ops'[k].value = None
               /\ Count(ops'[k].log, "setAccessToken") = 0]_vars

\* a refresh call has failed: its operation ended with null after one call
\* while a request waits on it and no other operation exists
RefreshCallFailedOnce ==
    /\ Len(ops) = 1
    /\ ops[1].state = "fulfilled"
    /\ ops[1].value = None
    /\ CallsIssued(ops[1].log) = 1
    /\ ops[1].log[Len(ops[1].log) - 1]
         = Call("onTokenRefreshError", "axios.request")
    /\ Waiters(1) # {}

\* performTokenRefresh found no refresh token, called onUnauthorized and
\* returned null
ReturnedForMissingToken(p) ==
    /\ p.state = "fulfilled"
    /\ p.log = << Call("getRefreshToken", None), Call("onUnauthorized", None) >>

RefreshCalls == {"axios.request", "onRefreshRequest"}

\* the calls of the catch block for an error thrown by call err
FailurePath(err) ==
    << Call("clearTokens", None), Call("onTokenRefreshError", err),
       Call("onUnauthorized", None) >>

IsPrefix(a, b) == Len(a) <= Len(b) /\ SubSeq(b, 1, Len(a)) = a

HandlerCalledOnce ==
    \A r \in Requests :
        (/\ CallsRefreshToken(r)
         /\ StartsRefresh
         /\ tokenManager.refresh # None)
        => LET p == ops'[Len(ops')]
           IN /\ Count(p.log, "axios.request") = 0
              /\ refreshRequest' = refreshRequest
              /\ p.error.by # "getRefreshToken"
                 => /\ Len(p.log) >= 2
                    /\ p.log[2] = Call("onRefreshRequest", tokenManager.refresh)
                    /\ Count(p.log, "onRefreshRequest") = 1

\* this step settles the handler's promise: a token the operation yields
\* was written with setAccessToken and reported via onTokenRefresh; an
\* empty result calls nothing and yields null
HandlerResultStored ==
    \A k \in DOMAIN ops :
        (ops[k].state = "pending" /\ ops'[k] # ops[k])
        => /\ Count(ops'[k].log, "onRefreshRequest") = 1
           /\ Count(ops'[k].log, "axios.request") = 0
           /\ refreshRequest' = refreshRequest
           /\ ops'[k].value # None
              => /\ ops'[k].state = "fulfilled"
                 /\ ops'[k].log
                      = ops[k].log
                        \o << Call("setAccessToken", ops'[k].value),
                              Call("onTokenRefresh", ops'[k].value) >>
                 /\ tokenManager'.access = ops'[k].value
           /\ (ops'[k].state = "fulfilled" /\ ops'[k].log = ops[k].log)
              => /\ ops'[k].value = None
                 /\ tokenManager' = tokenManager

\* this step resumes a request waiting on a returned operation: with a
\* token it is sent again, without one it is rejected and not sent again
HandlerResultRetried(r) ==
    (/\ req[r].pc = "awaitShared"
     /\ req'[r].pc # "awaitShared"
     /\ ops[req[r].awaits].state = "fulfilled")
    => IF ops[req[r].awaits].value # None
       THEN /\ req'[r].pc = "inflight"
            /\ req'[r].newToken = ops[req[r].awaits].value
            /\ req'[r].attempts = req[r].attempts + 1
       ELSE /\ req'[r].pc = "rejected"
            /\ req'[r].rejection = req[r].error
            /\ req'[r].attempts = req[r].attempts

Unsettled(r) == req[r].retry /\ req[r].pc \notin Idle

\* C23: every request that received a 401 eventually settles, resolved
\* with the response of its re-dispatch or rejected, whether it started
\* the refresh or joined it; no request waits on the refresh forever.
AuthFailedRequestSettles ==
    \A r \in Requests :
        /\ Unsettled(r) ~> (req[r].pc \in {"resolved", "rejected"})
        /\ (req[r].pc = "awaitOwn") ~> (req[r].pc # "awaitOwn")
        /\ (req[r].pc = "awaitShared") ~> (req[r].pc # "awaitShared")

\* the starter of a refresh and a request that joined it have both
\* settled, one resolved by its re-dispatch
StarterAndJoinerSettled ==
    \E r, o \in Requests :
        /\ r # o
        /\ req[r].awaits = req[o].awaits
        /\ req[r].awaits # 0
        /\ req[r].retry /\ req[o].retry
        /\ req[r].pc = "resolved" /\ req[r].attempts = 2
        /\ req[o].pc \in {"resolved", "rejected"}
====
